---- MODULE Spec2Model ----
(***************************************************************************)
(* k8s-cc-manager: the reconciler loop and label watcher of cmd/main.go,   *)
(* and the mode-apply script cc-manager.sh it runs.                        *)
(*                                                                         *)
(*   Spec        the Go process: start, the watch loop, the informer task  *)
(*               and SyncableCCModeConfig; runScript is seen through its   *)
(*               exit status, the only thing the Go code reads of it.      *)
(*   SpecFair    the Go process under a fair scheduler.                    *)
(*   SpecCycle   one run of cc-manager.sh set-cc-mode -a -m MODE.          *)
(*   SpecLabels  the pure label transforms _maybe_set_paused and           *)
(*               _maybe_set_true.                                          *)
(***************************************************************************)
EXTENDS Naturals, Sequences, FiniteSets

VARIABLES
    \* ---- cmd/main.go ----
    nodeLabel,          \* value of nvidia.com/cc.mode on the node ("" = absent or empty)
    defaultCCModeFlag,  \* --default-cc-mode
    current,            \* SyncableCCModeConfig.current
    lastRead,           \* SyncableCCModeConfig.lastRead
    mutex,              \* SyncableCCModeConfig.mutex: "free" or the task holding it
    pc,                 \* position of the main goroutine in start()
    value,              \* the local `value` of the watch loop (result of Get)
    ccMode,             \* argument of the runScript call in flight / last made
    ipc,                \* position of the informer goroutine
    setArg,             \* argument of the Set call the informer is making
    store,              \* label value of the node object in the informer's store
    events,             \* watch events not yet handled (label values of the new objects)
    \* history of the Go process, read by the properties only
    nChanges,           \* node updates made by the environment so far
    nSets,              \* completed Set calls
    lastSetArg,         \* argument of the most recent completed Set
    prevRead,           \* lastRead as it was when the most recent Get returned
    retIdx,             \* nSets when the most recent Get returned
    nGets,              \* Get calls returned (capped at 2)
    startupRuns,        \* runScript calls made before the subscription
    loopRuns,           \* runScript calls made by the watch loop (capped at 2)
    result,             \* "none" while runScript runs (or never ran), else "ok" / "failed"
    loopFailed,         \* a runScript call of the watch loop has failed
    prevSetArg,         \* argument of the completed Set before the most recent one
    readLabel,          \* the label value start() read directly
    running,            \* cc-manager.sh processes started by runScript and not ended
    skipped,            \* an update event has been handled without a Set
    \* ---- label transforms of cc-manager.sh, applied to one value ----
    lv,                 \* a component deployment label value (a string, as characters)
    lpaused,            \* _maybe_set_paused of it
    lresumed,           \* _maybe_set_true of lpaused, or of lv itself
    lpc,                \* "in", "paused", "resumed" or "restored"
    \* ---- one run of cc-manager.sh set-cc-mode -a -m CC_MODE ----
    sysfs,              \* /sys/bus/pci/devices: a sequence of [vendor, class, device]
    hwMode,             \* the CC mode each device is in (what the tool's query reports)
    CC_MODE,            \* the -m argument
    labels,             \* the five nvidia.com/gpu.deploy.* labels of the node
    DEPLOYED,           \* the five *_DEPLOYED shell variables
    gpus,               \* the shell array gpus (indices into sysfs)
    spc,                \* position of the script
    gi,                 \* position of the for loop over gpus
    ki,                 \* position in the sequence of eviction waits
    stateLabel,         \* the nvidia.com/cc.mode.state label of the node
    \* history of the run, read by the properties only
    trace,              \* tool and kubectl calls made so far, in order
    waited,             \* kinds whose pods the script has waited for
    timedOut,           \* a wait has ended by the 5m timeout
    failedAt,           \* the step that made the script exit non-zero, or "none"
    matched,            \* gpus whose query in _assert_cc_mode reported CC_MODE
    asserted,           \* gpus whose most recent query reported CC_MODE
    labels0,            \* labels as they were when the script started
    hwMode0             \* hwMode as it was when the script started

goVars == <<nodeLabel, defaultCCModeFlag, current, lastRead, mutex, pc, value,
            ccMode, ipc, setArg, store, events, nChanges, nSets, lastSetArg,
            prevRead, retIdx, nGets, startupRuns, loopRuns, result, loopFailed,
            prevSetArg, readLabel, running, skipped>>

\* Groups used by UNCHANGED.
setHist == <<nSets, lastSetArg, prevSetArg, skipped>>
getHist == <<prevRead, retIdx, nGets>>
runHist == <<startupRuns, loopRuns, result, loopFailed, readLabel, running>>
informer == <<ipc, setArg, store, events>>

labelVars == <<lv, lpaused, lresumed, lpc>>

cycleVars == <<sysfs, hwMode, CC_MODE, labels, DEPLOYED, gpus, spc, gi, ki,
               stateLabel, trace, waited, timedOut, failedAt, matched, asserted,
               labels0, hwMode0>>

vars == <<goVars, labelVars, cycleVars>>

\* ------------------------------------------------------------------ bounds
MaxChanges == 3     \* node updates the environment makes in one behaviour
MaxEvents == 2      \* watch events that may be pending at once
MaxPinLen == 3      \* length of a pinned (free-form) component label value
MaxDevs == 2        \* PCI devices on the node

\* ------------------------------------------------------------- cmd/main.go
\* Values the nvidia.com/cc.mode label takes in the model: "" is absent/empty,
\* two of the modes, and a string that is not a mode (the label is free text
\* and start() passes it on as it reads it).
LabelValues == {"", "on", "off", "bogus"}

\* --default-cc-mode: unset, or a mode.
DefaultValues == {"", "on", "off"}

\* Faulty variant: the broadcast also takes the loop out of a runScript call.
BroadcastInterrupts(p) == IF p \in {"getWait", "loopApply"} THEN "getRelock" ELSE p

\* cond.Broadcast(): the goroutine blocked in cond.Wait() becomes runnable and
\* has to re-acquire the mutex.
Broadcast(p) == IF p = "getWait" THEN "getRelock" ELSE p

Cap(n) == IF n < 2 THEN n + 1 ELSE n

GoInit ==
    /\ nodeLabel \in LabelValues
    /\ defaultCCModeFlag \in DefaultValues
    /\ current = ""
    /\ lastRead = ""
    /\ mutex = "free"
    /\ pc = "start"
    /\ value = ""
    /\ ccMode = ""
    /\ ipc = "off"
    /\ setArg = ""
    /\ store = ""
    /\ events = <<>>
    /\ nChanges = 0
    /\ nSets = 0
    /\ lastSetArg = ""
    /\ prevRead = ""
    /\ retIdx = 0
    /\ nGets = 0
    /\ startupRuns = 0
    /\ loopRuns = 0
    /\ result = "none"
    /\ loopFailed = FALSE
    /\ prevSetArg = ""
    /\ readLabel = ""
    /\ running = 0
    /\ skipped = FALSE

\* The label-transform variables at rest (specifications that do not use them).
LabelsIdle ==
    /\ lv = <<>>
    /\ lpaused = <<>>
    /\ lresumed = <<>>
    /\ lpc = "off"

\* The environment updates the node object: the label is set to v (perhaps the
\* value it has: an update of something else on the node).  Once the informer
\* has listed, every update reaches it as a watch event.
NodeUpdate ==
    /\ nChanges < MaxChanges
    /\ pc # "exited"
    /\ \E v \in LabelValues :
        /\ nodeLabel' = v
        /\ IF ipc \in {"off", "list"}
              THEN events' = events
              ELSE /\ Len(events) < MaxEvents
                   /\ events' = Append(events, v)
    /\ nChanges' = nChanges + 1
    /\ UNCHANGED <<defaultCCModeFlag, current, lastRead, mutex, pc, value, ccMode,
                   ipc, setArg, store, setHist, getHist, runHist>>
    /\ UNCHANGED <<labelVars, cycleVars>>

\* Faulty variant: the startup apply is made whatever the label.
NeedsStartupApplyAlways(label) == TRUE

\* Lines 136-138: the startup apply is made only when the label is absent or
\* empty and a default is configured.
NeedsStartupApply(label) == label = "" /\ defaultCCModeFlag # ""

\* start(), lines 129-147: read the label directly and, if needed, run the
\* script with the default.
StartRead ==
    /\ pc = "start"
    /\ readLabel' = nodeLabel
    /\ IF NeedsStartupApply(nodeLabel)
          THEN /\ pc' = "initApply"
               /\ ccMode' = defaultCCModeFlag
               /\ startupRuns' = startupRuns + 1
               /\ running' = running + 1
          ELSE /\ pc' = "subscribe"
               /\ UNCHANGED <<ccMode, startupRuns, running>>
    /\ UNCHANGED <<nodeLabel, nChanges, defaultCCModeFlag, current, lastRead, mutex,
                   value, informer, setHist, getHist, loopRuns, result, loopFailed>>
    /\ UNCHANGED <<labelVars, cycleVars>>

\* What start() does with the error of the startup runScript (lines 141-144):
\* os.Exit(1).
OnStartupError == "exited"

\* runScript returns at startup: nil, or an error.
InitApplyDone ==
    /\ pc = "initApply"
    /\ \E ok \in BOOLEAN :
        /\ result' = IF ok THEN "ok" ELSE "failed"
        /\ pc' = IF ok THEN "subscribe" ELSE OnStartupError
    /\ running' = running - 1
    /\ UNCHANGED <<nodeLabel, nChanges, defaultCCModeFlag, current, lastRead, mutex,
                   value, ccMode, informer, setHist, getHist, startupRuns, loopRuns,
                   loopFailed, readLabel>>
    /\ UNCHANGED <<labelVars, cycleVars>>

\* Lines 149-150: NewSyncableCCModeConfig and ContinuouslySyncCCModeConfigChanges
\* (go controller.Run).
Subscribe ==
    /\ pc = "subscribe"
    /\ pc' = "getLock"
    /\ ipc' = "list"
    /\ UNCHANGED <<nodeLabel, nChanges, defaultCCModeFlag, current, lastRead, mutex,
                   value, ccMode, setArg, store, events, setHist, getHist, runHist>>
    /\ UNCHANGED <<labelVars, cycleVars>>

\* Get, line 68: m.mutex.Lock().
GetLock ==
    /\ pc = "getLock"
    /\ mutex = "free"
    /\ mutex' = "main"
    /\ pc' = "getCheck"
    /\ UNCHANGED <<nodeLabel, nChanges, defaultCCModeFlag, current, lastRead, value,
                   ccMode, informer, setHist, getHist, runHist>>
    /\ UNCHANGED <<labelVars, cycleVars>>

\* Faulty variant: Get returns without the deferred Unlock.
GetReturnLocked ==
    /\ lastRead' = current
    /\ value' = current
    /\ prevRead' = lastRead
    /\ retIdx' = nSets
    /\ nGets' = Cap(nGets)
    /\ mutex' = "main"
    /\ pc' = "gotValue"

\* Get, lines 73-74 and the deferred Unlock: lastRead = current; return lastRead.
GetReturn ==
    /\ lastRead' = current
    /\ value' = current
    /\ prevRead' = lastRead
    /\ retIdx' = nSets
    /\ nGets' = Cap(nGets)
    /\ mutex' = "free"
    /\ pc' = "gotValue"

\* Get, lines 70-72: if lastRead == current, cond.Wait() (which unlocks);
\* otherwise fall through to the return.
GetCheck ==
    /\ pc = "getCheck"
    /\ IF lastRead = current
          THEN /\ pc' = "getWait"
               /\ mutex' = "free"
               /\ UNCHANGED <<lastRead, value, getHist>>
          ELSE GetReturn
    /\ UNCHANGED <<nodeLabel, nChanges, defaultCCModeFlag, current, ccMode, informer,
                   setHist, runHist>>
    /\ UNCHANGED <<labelVars, cycleVars>>

\* cond.Wait() returning: the woken goroutine re-locks the mutex.
GetRelock ==
    /\ pc = "getRelock"
    /\ mutex = "free"
    /\ mutex' = "main"
    /\ pc' = "getWoken"
    /\ UNCHANGED <<nodeLabel, nChanges, defaultCCModeFlag, current, lastRead, value,
                   ccMode, informer, setHist, getHist, runHist>>
    /\ UNCHANGED <<labelVars, cycleVars>>

\* After Wait there is no second test of the condition (an `if`, not a `for`).
GetWoken ==
    /\ pc = "getWoken"
    /\ GetReturn
    /\ UNCHANGED <<nodeLabel, nChanges, defaultCCModeFlag, current, ccMode, informer,
                   setHist, runHist>>
    /\ UNCHANGED <<labelVars, cycleVars>>

\* Faulty variant: the value Get returned is passed on as it is.
LoopModeRaw(v) == v

\* Lines 157-160: the mode the loop passes to runScript for a value Get returned.
LoopMode(v) == IF v = "" THEN defaultCCModeFlag ELSE v

\* Lines 157-162: default an empty value and start runScript.
LoopRun ==
    /\ pc = "gotValue"
    /\ ccMode' = LoopMode(value)
    /\ value' = LoopMode(value)
    /\ loopRuns' = Cap(loopRuns)
    /\ result' = "none"
    /\ running' = running + 1
    /\ pc' = "loopApply"
    /\ UNCHANGED <<nodeLabel, nChanges, defaultCCModeFlag, current, lastRead, mutex,
                   informer, setHist, getHist, startupRuns, loopFailed, readLabel>>
    /\ UNCHANGED <<labelVars, cycleVars>>

\* Faulty variant: the watch loop exits on an error, as the startup does.
OnLoopErrorExit == "exited"

\* Faulty variant: the watch loop runs the script again on an error.
OnLoopErrorRetry == "gotValue"

\* What the watch loop does with the error of runScript (lines 163-166):
\* log it and continue.
OnLoopError == "getLock"

\* runScript returns in the loop: both outcomes go back to Get.
LoopApplyDone ==
    /\ pc = "loopApply"
    /\ \E ok \in BOOLEAN :
        /\ result' = IF ok THEN "ok" ELSE "failed"
        /\ loopFailed' = (loopFailed \/ ~ok)
        /\ pc' = IF ok THEN "getLock" ELSE OnLoopError
    /\ running' = running - 1
    /\ UNCHANGED <<nodeLabel, nChanges, defaultCCModeFlag, current, lastRead, mutex,
                   value, ccMode, informer, setHist, getHist, startupRuns, loopRuns,
                   readLabel>>
    /\ UNCHANGED <<labelVars, cycleVars>>

\* The informer lists the node and delivers it to AddFunc (lines 194-196),
\* which calls Set with the label whatever its value.
AddFunc ==
    /\ ipc = "list"
    /\ pc # "exited"
    /\ store' = nodeLabel
    /\ setArg' = nodeLabel
    /\ ipc' = "setLock"
    /\ UNCHANGED <<nodeLabel, nChanges, defaultCCModeFlag, current, lastRead, mutex,
                   pc, value, ccMode, events, setHist, getHist, runHist>>
    /\ UNCHANGED <<labelVars, cycleVars>>

\* Faulty variant: every update event is taken for a change of the label.
LabelChangedAlways(oldLabel, newLabel) == TRUE

\* Line 200: the test UpdateFunc makes before it calls Set.
LabelChanged(oldLabel, newLabel) == oldLabel # newLabel

\* UpdateFunc (lines 197-203): Set only when the label of the new object
\* differs from the label of the old one.
UpdateFunc ==
    /\ ipc = "watch"
    /\ pc # "exited"
    /\ events # <<>>
    /\ store' = Head(events)
    /\ events' = Tail(events)
    /\ IF LabelChanged(store, Head(events))
          THEN /\ setArg' = Head(events)
               /\ ipc' = "setLock"
               /\ UNCHANGED skipped
          ELSE /\ skipped' = TRUE
               /\ UNCHANGED <<setArg, ipc>>
    /\ UNCHANGED <<nodeLabel, nChanges, defaultCCModeFlag, current, lastRead, mutex,
                   pc, value, ccMode, nSets, lastSetArg, prevSetArg, getHist, runHist>>
    /\ UNCHANGED <<labelVars, cycleVars>>

\* Set, line 61: m.mutex.Lock().
SetLock ==
    /\ ipc = "setLock"
    /\ pc # "exited"
    /\ mutex = "free"
    /\ mutex' = "informer"
    /\ ipc' = "setBody"
    /\ UNCHANGED <<nodeLabel, nChanges, defaultCCModeFlag, current, lastRead, pc,
                   value, ccMode, setArg, store, events, setHist, getHist, runHist>>
    /\ UNCHANGED <<labelVars, cycleVars>>

\* Faulty variant: Set stores nothing.
SetValueKeep(old, arg) == old

\* Faulty variant: Set keeps a value that Get has not returned yet.
SetValueIfUnread(old, arg) == IF old = lastRead THEN arg ELSE old

\* The value Set stores in current (line 63): its argument.
SetValue(old, arg) == arg

\* Set, lines 63-64 and the deferred Unlock.
SetBody ==
    /\ ipc = "setBody"
    /\ pc # "exited"
    /\ current' = SetValue(current, setArg)
    /\ pc' = Broadcast(pc)
    /\ mutex' = "free"
    /\ nSets' = nSets + 1
    /\ lastSetArg' = setArg
    /\ prevSetArg' = lastSetArg
    /\ ipc' = "watch"
    /\ UNCHANGED <<nodeLabel, nChanges, defaultCCModeFlag, lastRead, value, ccMode,
                   setArg, store, events, skipped, getHist, runHist>>
    /\ UNCHANGED <<labelVars, cycleVars>>


\* ------------------------------------------------- cc-manager.sh: labels
\* Strings the script handles are sequences of characters.
\* Line 12.
PAUSED_STR == <<"p","a","u","s","e","d","-","f","o","r","-","c","c","-",
                "m","o","d","e","-","c","h","a","n","g","e">>
TrueStr == <<"t","r","u","e">>
FalseStr == <<"f","a","l","s","e">>

\* p occurs in s at position i.
OccursAt(s, p, i) ==
    /\ i + Len(p) - 1 <= Len(s)
    /\ SubSeq(s, i, i + Len(p) - 1) = p

\* [[ "$s" == *"$p"* ]]
Contains(s, p) == \E i \in 1..(Len(s) + 1) : OccursAt(s, p, i)

\* sed -r "s/$p//g": every occurrence of p, left to right, is deleted.
RECURSIVE SedDeleteAll(_, _)
SedDeleteAll(s, p) ==
    IF s = <<>> THEN <<>>
    ELSE IF OccursAt(s, p, 1)
            THEN SedDeleteAll(SubSeq(s, Len(p) + 1, Len(s)), p)
            ELSE <<Head(s)>> \o SedDeleteAll(Tail(s), p)

\* tr -d "$c": every character c is deleted.
TrDelete(s, c) == SelectSeq(s, LAMBDA x : x # c)

\* Faulty variant: a value of "false" is paused like a pinned value.
_maybe_set_paused_false(current_value) ==
    IF current_value = <<>> THEN <<>>
    ELSE IF current_value = TrueStr THEN PAUSED_STR
    ELSE IF Contains(current_value, PAUSED_STR) THEN current_value
    ELSE current_value \o <<"_">> \o PAUSED_STR

\* Lines 173-191.
_maybe_set_paused(current_value) ==
    IF current_value = <<>> THEN <<>>
    ELSE IF current_value = FalseStr THEN FalseStr
    ELSE IF current_value = TrueStr THEN PAUSED_STR
    ELSE IF Contains(current_value, PAUSED_STR) THEN current_value
    ELSE current_value \o <<"_">> \o PAUSED_STR

\* Lines 196-208.
_maybe_set_true(current_value) ==
    IF current_value = FalseStr THEN FalseStr
    ELSE IF current_value = PAUSED_STR THEN TrueStr
    ELSE TrDelete(SedDeleteAll(current_value, PAUSED_STR), "_")

\* Free-form (pinned) label values: characters a label value may hold, first
\* and last alphanumeric.
PinChars == {"v", "1", "_"}
Pins ==
    {s \in UNION {[1..n -> PinChars] : n \in 1..MaxPinLen} :
        s[1] # "_" /\ s[Len(s)] # "_"}

\* Values of a component deployment label: empty, "false", "true", the bare
\* paused marker, a pinned string, a pinned string carrying the marker.
ComponentStates ==
    {<<>>, FalseStr, TrueStr, PAUSED_STR}
        \cup Pins
        \cup {p \o <<"_">> \o PAUSED_STR : p \in Pins}

LabelsInit ==
    /\ lv \in ComponentStates
    /\ lpaused = <<>>
    /\ lresumed = <<>>
    /\ lpc = "in"

\* Pause: the value _evict_gpu_operator_components writes (lines 263-267).
LabelPause ==
    /\ lpc = "in"
    /\ lpaused' = _maybe_set_paused(lv)
    /\ lpc' = "paused"
    /\ UNCHANGED <<lv, lresumed, goVars, cycleVars>>

\* Resume applied to the paused value.
LabelResume ==
    /\ lpc = "paused"
    /\ lresumed' = _maybe_set_true(lpaused)
    /\ lpc' = "resumed"
    /\ UNCHANGED <<lv, lpaused, goVars, cycleVars>>

\* Resume as _reschedule_gpu_operator_components applies it (lines 324-328):
\* to the value captured before the pause.
LabelRestore ==
    /\ lpc = "in"
    /\ lresumed' = _maybe_set_true(lv)
    /\ lpc' = "restored"
    /\ UNCHANGED <<lv, lpaused, goVars, cycleVars>>

NextLabels ==
    \/ LabelPause
    \/ LabelResume
    \/ LabelRestore

\* ------------------------------------------------- cc-manager.sh: script
Modes == {"on", "off", "devtools"}

\* The five component kinds, in the order of the waits (lines 273-316).
Kinds == <<"vfio-manager", "vgpu-manager", "sandbox-validator",
           "sandbox-device-plugin", "vgpu-device-manager">>
KindSet == {Kinds[k] : k \in 1..Len(Kinds)}

\* CC_CAPABLE_DEVICE_IDS (line 6), split into device_ids (line 21).
device_ids == {"0x2331"}

\* PCI devices of the model: a capable GPU, an NVIDIA GPU whose device id is
\* not in the allow-list, an NVIDIA device of another class, another vendor.
DeviceTypes ==
    {[vendor |-> "0x10de", class |-> "0x030200", device |-> "0x2331"],
     [vendor |-> "0x10de", class |-> "0x030000", device |-> "0x1eb8"],
     [vendor |-> "0x10de", class |-> "0x068000", device |-> "0x2331"],
     [vendor |-> "0x8086", class |-> "0x030000", device |-> "0x2331"]}

\* Label values the five kinds start a run with.
CycleStates ==
    <<TrueStr, <<>>, FalseStr, <<"v", "_", "1">>, PAUSED_STR, <<"v", "1">>,
      <<"v", "1", "_">> \o PAUSED_STR>>

\* The label sets of the model: kind k holds the (k + r)-th of CycleStates,
\* for every rotation r, so that every kind takes every value.
LabelConfigs ==
    {[kind \in KindSet |->
        CycleStates[(((CHOOSE k \in 1..Len(Kinds) : Kinds[k] = kind) + r)
                        % Len(CycleStates)) + 1]] :
     r \in 0..(Len(CycleStates) - 1)}

\* Lines 60-68: the test a device passes to be added to gpus.
IsGpu(dev) ==
    /\ dev.vendor = "0x10de"
    /\ dev.class \in {"0x030000", "0x030200"}

\* Lines 7-11, 15.
CycleInit ==
    /\ sysfs \in UNION {[1..n -> DeviceTypes] : n \in 0..MaxDevs}
    /\ hwMode \in [DOMAIN sysfs -> Modes]
    /\ \A d \in DOMAIN sysfs : IsGpu(sysfs[d]) \/ hwMode[d] = "off"
    /\ CC_MODE \in Modes
    /\ labels \in LabelConfigs
    /\ DEPLOYED = [kind \in KindSet |-> <<>>]
    /\ gpus = <<>>
    /\ spc = "start"
    /\ gi = 1
    /\ ki = 1
    /\ stateLabel = ""
    /\ trace = <<>>
    /\ waited = {}
    /\ timedOut = FALSE
    /\ failedAt = "none"
    /\ matched = {}
    /\ asserted = {}
    /\ labels0 = labels
    /\ hwMode0 = hwMode

\* The script's variables at rest (specifications that do not run it).
CycleIdle ==
    /\ sysfs = <<>> /\ hwMode = <<>> /\ CC_MODE = "" /\ gpus = <<>>
    /\ labels = [kind \in KindSet |-> <<>>]
    /\ DEPLOYED = [kind \in KindSet |-> <<>>]
    /\ spc = "off" /\ gi = 1 /\ ki = 1 /\ stateLabel = "" /\ trace = <<>>
    /\ waited = {} /\ timedOut = FALSE /\ failedAt = "none" /\ matched = {}
    /\ asserted = {}
    /\ labels0 = labels /\ hwMode0 = hwMode

\* Lines 58-76: the devices, in sysfs order, that pass the test.
RECURSIVE _get_all_cc_capable_gpus(_)
_get_all_cc_capable_gpus(n) ==
    IF n = 0 THEN <<>>
    ELSE IF IsGpu(sysfs[n])
            THEN Append(_get_all_cc_capable_gpus(n - 1), n)
            ELSE _get_all_cc_capable_gpus(n - 1)

\* Lines 516-519: populate device_ids and gpus.
Discover ==
    /\ spc = "start"
    /\ gpus' = _get_all_cc_capable_gpus(Len(sysfs))
    /\ spc' = "fetch"
    /\ UNCHANGED <<sysfs, hwMode, CC_MODE, labels, DEPLOYED, gi, ki, stateLabel,
                   trace, waited, timedOut, failedAt, matched,
                   asserted,
                   labels0, hwMode0, goVars, labelVars>>

\* Lines 217-257 (called at line 522): read the five labels; a failing kubectl
\* get ends the script with exit 1.
_fetch_current_labels ==
    /\ spc = "fetch"
    /\ \E ok \in BOOLEAN :
        IF ok THEN /\ DEPLOYED' = labels
                   /\ spc' = "set_cc_mode"
                   /\ UNCHANGED failedAt
              ELSE /\ spc' = "exit1"
                   /\ failedAt' = "fetch"
                   /\ UNCHANGED DEPLOYED
    /\ UNCHANGED <<sysfs, hwMode, CC_MODE, labels, gpus, gi, ki, stateLabel,
                   trace, waited, timedOut, matched,
                   asserted,
                   labels0, hwMode0, goVars, labelVars>>

\* A call made by the script, as recorded in trace: the operation, the gpu it
\* is made on (0 for a label update) and, for a write of the state label, the
\* value written.
Ev(op, gpu, val) == [op |-> op, gpu |-> gpu, val |-> val]

\* What gpu_cc_tool.py --query-cc-mode ends with for a device: a non-zero
\* exit, output _parse_mode rejects (lines 125-134), or the device's mode.
QueryOutcomes(gpu) == {"toolfail", "garbage", hwMode[gpu]}

\* Record of a query of the current gpu that ended with out.
Asserted(out) ==
    IF out = CC_MODE THEN asserted \cup {gpus[gi]} ELSE asserted \ {gpus[gi]}

\* Faulty variant: output that does not parse counts as the mode asked for.
_assert_gpu_cc_mode_lax(out, mode) ==
    IF out = "toolfail" THEN "exit"
    ELSE IF out = "garbage" THEN "0"
    ELSE IF out = mode THEN "0"
    ELSE "1"

\* Faulty variant: a reported mode never counts as the one asked for.
_assert_gpu_cc_mode_differs(out, mode) ==
    IF out = "toolfail" THEN "exit" ELSE "1"

\* Lines 148-168: "exit" when the tool fails (_exit_failed), "1" (return 1)
\* when the output does not parse or the mode differs, "0" (return 0) when
\* the mode is the one asked for.
_assert_gpu_cc_mode(out, mode) ==
    IF out = "toolfail" THEN "exit"
    ELSE IF out = "garbage" THEN "1"
    ELSE IF out = mode THEN "0"
    ELSE "1"

\* Lines 336-340: nothing to do without gpus.
set_cc_mode ==
    /\ spc = "set_cc_mode"
    /\ spc' = IF Len(gpus) = 0 THEN "ready" ELSE "assert"
    /\ gi' = 1
    /\ UNCHANGED <<sysfs, hwMode, CC_MODE, labels, DEPLOYED, gpus, ki, stateLabel,
                   trace, waited, timedOut, failedAt, matched,
                   asserted,
                   labels0, hwMode0, goVars, labelVars>>

\* Lines 342-346 with _assert_cc_mode (136-146): query the gpus in order; stop
\* at the first that does not report CC_MODE; return 0 if all do.
_assert_cc_mode ==
    /\ spc = "assert"
    /\ \E out \in QueryOutcomes(gpus[gi]) :
        /\ trace' = Append(trace, Ev("query", gpus[gi], ""))
        /\ matched' = IF out = CC_MODE THEN matched \cup {gpus[gi]} ELSE matched
        /\ asserted' = Asserted(out)
        /\ IF _assert_gpu_cc_mode(out, CC_MODE) = "exit"
              THEN spc' = "exit_failed" /\ failedAt' = "query" /\ gi' = gi
              ELSE IF _assert_gpu_cc_mode(out, CC_MODE) = "1"
                      THEN spc' = "evict" /\ gi' = gi /\ failedAt' = failedAt
                      ELSE /\ spc' = IF gi = Len(gpus) THEN "ready" ELSE "assert"
                           /\ gi' = IF gi = Len(gpus) THEN gi ELSE gi + 1
                           /\ failedAt' = failedAt
    /\ UNCHANGED <<sysfs, hwMode, CC_MODE, labels, DEPLOYED, gpus, ki, stateLabel,
                   waited, timedOut, labels0, hwMode0, goVars, labelVars>>

\* What set_cc_mode does when _evict_gpu_operator_components returns 1
\* (line 349): return 1.
OnEvictFailed == "exit1"

\* Lines 259-271: one kubectl label call pausing the five kinds.
_evict_gpu_operator_components ==
    /\ spc = "evict"
    /\ \E ok \in BOOLEAN :
        /\ trace' = Append(trace, Ev("pause", 0, ""))
        /\ IF ok THEN /\ labels' = [kind \in KindSet |->
                                        _maybe_set_paused(DEPLOYED[kind])]
                      /\ spc' = "wait"
                      /\ failedAt' = failedAt
                 ELSE /\ spc' = OnEvictFailed
                      /\ failedAt' = "pause"
                      /\ UNCHANGED labels
    /\ ki' = 1
    /\ UNCHANGED <<sysfs, hwMode, CC_MODE, DEPLOYED, gpus, gi, stateLabel, waited,
                   timedOut, matched,
                   asserted,
                   labels0, hwMode0, goVars, labelVars>>

\* Faulty variant: every kind is waited for.
WaitsForAll(deployed) == TRUE

\* Lines 273, 282, 291, 300, 309: the kinds the script waits for.
WaitsFor(deployed) == deployed # <<>>

\* Lines 273-317: kubectl wait --for=delete pod --timeout=5m for the ki-th
\* kind, if waited for: the pods are gone in time, or the wait times out.  The
\* exit status of kubectl wait is not read: the script goes on either way and
\* the function returns 0.
WaitForDelete ==
    /\ spc = "wait"
    /\ \E gone \in BOOLEAN :
        IF WaitsFor(DEPLOYED[Kinds[ki]])
           THEN /\ waited' = waited \cup {Kinds[ki]}
                /\ timedOut' = (timedOut \/ ~gone)
           ELSE /\ gone
                /\ UNCHANGED <<waited, timedOut>>
    /\ spc' = IF ki = Len(Kinds) THEN "unbind" ELSE "wait"
    /\ ki' = IF ki = Len(Kinds) THEN ki ELSE ki + 1
    /\ gi' = 1
    /\ UNCHANGED <<sysfs, hwMode, CC_MODE, labels, DEPLOYED, gpus, stateLabel,
                   trace, failedAt, matched,
                   asserted,
                   labels0, hwMode0, goVars, labelVars>>

\* Lines 40-56, 353-356: unbind the device from its driver: nothing is bound
\* (return 0), the writes succeed, or the last write fails (_exit_failed).
_unbind_device ==
    /\ spc = "unbind"
    /\ \E out \in {"nodriver", "ok", "fail"} :
        /\ trace' = Append(trace, Ev("unbind", gpus[gi], ""))
        /\ IF out = "fail"
              THEN spc' = "exit_failed" /\ failedAt' = "unbind"
              ELSE spc' = "apply_query" /\ failedAt' = failedAt
    /\ UNCHANGED <<sysfs, hwMode, CC_MODE, labels, DEPLOYED, gpus, gi, ki,
                   stateLabel, waited, timedOut, matched,
                   asserted,
                   labels0, hwMode0, goVars, labelVars>>

\* Faulty variant: the gpus after the first are not unbound.
NextGpuNoUnbind ==
    /\ spc' = IF gi = Len(gpus) THEN "label_success" ELSE "apply_query"
    /\ gi' = IF gi = Len(gpus) THEN gi ELSE gi + 1

\* The end of one pass of the for loop of set_cc_mode (lines 351, 368).
NextGpu ==
    /\ spc' = IF gi = Len(gpus) THEN "label_success" ELSE "unbind"
    /\ gi' = IF gi = Len(gpus) THEN gi ELSE gi + 1

\* set_gpu_cc_mode, line 388: the first query of the device.
set_gpu_cc_mode ==
    /\ spc = "apply_query"
    /\ \E out \in QueryOutcomes(gpus[gi]) :
        /\ trace' = Append(trace, Ev("query", gpus[gi], ""))
        /\ asserted' = Asserted(out)
        /\ IF _assert_gpu_cc_mode(out, CC_MODE) = "exit"
              THEN spc' = "exit_failed" /\ failedAt' = "query" /\ gi' = gi
              ELSE IF _assert_gpu_cc_mode(out, CC_MODE) = "1"
                      THEN spc' = "apply_set" /\ gi' = gi /\ failedAt' = failedAt
                      ELSE NextGpu /\ failedAt' = failedAt
    /\ UNCHANGED <<sysfs, hwMode, CC_MODE, labels, DEPLOYED, gpus, ki, stateLabel,
                   waited, timedOut, matched,
                   labels0, hwMode0, goVars, labelVars>>

\* set_gpu_cc_mode, lines 389-393: --set-cc-mode with reset: the tool fails,
\* or succeeds with the device in the new mode, or succeeds with the device
\* still in its old mode.
SetAndReset ==
    /\ spc = "apply_set"
    /\ \E out \in {"fail", "ok", "stale"} :
        /\ trace' = Append(trace, Ev("set", gpus[gi], ""))
        /\ hwMode' = IF out = "ok" THEN [hwMode EXCEPT ![gpus[gi]] = CC_MODE]
                                   ELSE hwMode
        /\ IF out = "fail"
              THEN spc' = "label_failed" /\ failedAt' = "set"
              ELSE spc' = "apply_requery" /\ failedAt' = failedAt
    /\ UNCHANGED <<sysfs, CC_MODE, labels, DEPLOYED, gpus, gi, ki, stateLabel,
                   waited, timedOut, matched,
                   asserted,
                   labels0, hwMode0, goVars, labelVars>>

\* set_gpu_cc_mode, lines 395-400: the query after the switch.
Reassert ==
    /\ spc = "apply_requery"
    /\ \E out \in QueryOutcomes(gpus[gi]) :
        /\ trace' = Append(trace, Ev("query", gpus[gi], ""))
        /\ asserted' = Asserted(out)
        /\ IF _assert_gpu_cc_mode(out, CC_MODE) = "exit"
              THEN spc' = "exit_failed" /\ failedAt' = "query" /\ gi' = gi
              ELSE IF _assert_gpu_cc_mode(out, CC_MODE) = "1"
                      THEN spc' = "label_failed" /\ gi' = gi /\ failedAt' = "verify"
                      ELSE NextGpu /\ failedAt' = failedAt
    /\ UNCHANGED <<sysfs, hwMode, CC_MODE, labels, DEPLOYED, gpus, ki, stateLabel,
                   waited, timedOut, matched,
                   labels0, hwMode0, goVars, labelVars>>

\* Lines 359-366: write the state label "failed" (the write may fail, which
\* is only logged), then _exit_failed.
LabelFailed ==
    /\ spc = "label_failed"
    /\ \E ok \in BOOLEAN :
        /\ trace' = Append(trace, Ev("state", 0, "failed"))
        /\ stateLabel' = IF ok THEN "failed" ELSE stateLabel
    /\ spc' = "exit_failed"
    /\ UNCHANGED <<sysfs, hwMode, CC_MODE, labels, DEPLOYED, gpus, gi, ki, waited,
                   timedOut, failedAt, matched,
                   asserted,
                   labels0, hwMode0, goVars, labelVars>>

\* Lines 322-328: the values the resume label update writes, computed from
\* the captured *_DEPLOYED values.
Rescheduled == [kind \in KindSet |-> _maybe_set_true(DEPLOYED[kind])]

\* Lines 210-215: _reschedule_gpu_operator_components, then exit 1.
_exit_failed ==
    /\ spc = "exit_failed"
    /\ \E ok \in BOOLEAN :
        /\ trace' = Append(trace, Ev("resume", 0, ""))
        /\ labels' = IF ok THEN Rescheduled ELSE labels
    /\ spc' = "exit1"
    /\ UNCHANGED <<sysfs, hwMode, CC_MODE, DEPLOYED, gpus, gi, ki, stateLabel,
                   waited, timedOut, failedAt, matched,
                   asserted,
                   labels0, hwMode0, goVars, labelVars>>

\* Line 373: the value of the state label after a run that switched all gpus.
StateOnSuccess(mode) == "success"

\* Lines 370-376: write the state label (a failing write is only logged).
LabelSuccess ==
    /\ spc = "label_success"
    /\ \E ok \in BOOLEAN :
        /\ trace' = Append(trace, Ev("state", 0, StateOnSuccess(CC_MODE)))
        /\ stateLabel' = IF ok THEN StateOnSuccess(CC_MODE) ELSE stateLabel
    /\ spc' = "reschedule"
    /\ UNCHANGED <<sysfs, hwMode, CC_MODE, labels, DEPLOYED, gpus, gi, ki, waited,
                   timedOut, failedAt, matched,
                   asserted,
                   labels0, hwMode0, goVars, labelVars>>

\* Lines 378-381: _reschedule_gpu_operator_components || return 1.
_reschedule_gpu_operator_components ==
    /\ spc = "reschedule"
    /\ \E ok \in BOOLEAN :
        /\ trace' = Append(trace, Ev("resume", 0, ""))
        /\ labels' = IF ok THEN Rescheduled ELSE labels
        /\ spc' = IF ok THEN "ready" ELSE "exit1"
        /\ failedAt' = IF ok THEN failedAt ELSE "resume"
    /\ UNCHANGED <<sysfs, hwMode, CC_MODE, DEPLOYED, gpus, gi, ki, stateLabel,
                   waited, timedOut, matched,
                   asserted,
                   labels0, hwMode0, goVars, labelVars>>

\* Lines 535-536: touch the readiness file; the script exits with the status
\* of this last command.
Ready ==
    /\ spc = "ready"
    /\ \E ok \in BOOLEAN :
        /\ spc' = IF ok THEN "exit0" ELSE "exit1"
        /\ failedAt' = IF ok THEN failedAt ELSE "touch"
    /\ UNCHANGED <<sysfs, hwMode, CC_MODE, labels, DEPLOYED, gpus, gi, ki,
                   stateLabel, trace, waited, timedOut, matched,
                   asserted,
                   labels0, hwMode0, goVars, labelVars>>

NextCycle ==
    \/ Discover
    \/ _fetch_current_labels
    \/ set_cc_mode
    \/ _assert_cc_mode
    \/ _evict_gpu_operator_components
    \/ WaitForDelete
    \/ _unbind_device
    \/ set_gpu_cc_mode
    \/ SetAndReset
    \/ Reassert
    \/ LabelFailed
    \/ _exit_failed
    \/ LabelSuccess
    \/ _reschedule_gpu_operator_components
    \/ Ready

\* The Go process at rest (specifications of the script alone).
GoIdle ==
    /\ nodeLabel = "" /\ defaultCCModeFlag = "" /\ current = "" /\ lastRead = ""
    /\ mutex = "free" /\ pc = "off" /\ value = "" /\ ccMode = "" /\ ipc = "off"
    /\ setArg = "" /\ store = "" /\ events = <<>> /\ nChanges = 0 /\ nSets = 0
    /\ lastSetArg = "" /\ prevRead = "" /\ retIdx = 0 /\ nGets = 0
    /\ startupRuns = 0 /\ loopRuns = 0 /\ result = "none" /\ loopFailed = FALSE
    /\ prevSetArg = "" /\ readLabel = "" /\ running = 0 /\ skipped = FALSE

InitLabels == GoIdle /\ LabelsInit /\ CycleIdle

SpecLabels == InitLabels /\ [][NextLabels]_vars

InitCycle == GoIdle /\ LabelsIdle /\ CycleInit

SpecCycle == InitCycle /\ [][NextCycle]_vars

\* ------------------------------------------------------ the Go process
Next ==
    \/ NodeUpdate
    \/ StartRead
    \/ InitApplyDone
    \/ Subscribe
    \/ GetLock
    \/ GetCheck
    \/ GetRelock
    \/ GetWoken
    \/ LoopRun
    \/ LoopApplyDone
    \/ AddFunc
    \/ UpdateFunc
    \/ SetLock
    \/ SetBody

Init == GoInit /\ LabelsIdle /\ CycleIdle

Spec == Init /\ [][Next]_vars

\* The steps of the goroutine that runs start().
MainStep ==
    \/ StartRead
    \/ InitApplyDone
    \/ Subscribe
    \/ GetLock
    \/ GetCheck
    \/ GetRelock
    \/ GetWoken
    \/ LoopRun
    \/ LoopApplyDone

\* The steps of the goroutine of controller.Run (line 208).
InformerStep ==
    \/ AddFunc
    \/ UpdateFunc
    \/ SetLock
    \/ SetBody

\* The Go process under a fair scheduler: a goroutine that can take a step
\* takes it in the end, and runScript returns.  The environment is under no
\* obligation to update the node.
SpecFair == Init /\ [][Next]_vars /\ WF_vars(MainStep) /\ WF_vars(InformerStep)

\* ================================================================ claims
\* ---------------------------------------------------------------- Spec

\* C1: whenever Get returns, the value it returns differs from the value the
\* previous Get returned (from "" for the first Get), i.e. Get has blocked for
\* as long as current = lastRead.  Stated on the state right after the return.
C1_GetReturnsOnlyOnChange ==
    pc = "gotValue" => value # prevRead

\* C2: every Get returns the argument of a Set made before it returned, namely
\* of the most recent one, and that Set is later than the Set whose argument
\* the previous Get returned: Sets overwritten before a Get are never returned
\* by that Get or a later one.
C2_Coalescing ==
    [][(pc # "gotValue" /\ pc' = "gotValue")
          => /\ nSets > 0
             /\ value' = lastSetArg
             /\ retIdx' = nSets
             /\ retIdx' > retIdx]_vars

\* C2 witness: the first Get has returned after two Sets with different
\* arguments, and returned the second.
C2_Witness ==
    /\ pc = "gotValue"
    /\ nGets = 1
    /\ retIdx = 2
    /\ prevSetArg # lastSetArg
    /\ value = lastSetArg

C10_FailurePolicy ==
    [][/\ pc # "exited"
       /\ (pc = "initApply" /\ result' = "failed")
             => (pc' = "exited" /\ nGets' = 0 /\ loopRuns' = 0)
       /\ (pc = "loopApply" /\ result' = "failed") => pc' = "getLock"
       /\ pc' = "exited" => pc = "initApply"]_vars

\* C10 witness: a runScript of the watch loop is in flight after an earlier
\* one of the loop has failed.
C10_Witness ==
    /\ loopFailed
    /\ pc = "loopApply"
    /\ result = "none"
    /\ loopRuns = 2

\* C14: whenever Get has returned the empty value, the next step of the loop
\* starts runScript, with the configured default in place of the empty value; a value
\* that is not empty is passed on unchanged.
C14_EmptyValueDefaulted ==
    [][(pc = "gotValue" /\ pc' # pc)
          => /\ pc' = "loopApply"
             /\ ccMode' = (IF value = "" THEN defaultCCModeFlag ELSE value)]_vars

\* C14 witness: the default is on, a first Get returned a mode, the label was
\* then removed, the second Get returned the empty value and the script is
\* running with mode on.
C14_Witness ==
    /\ pc = "loopApply"
    /\ defaultCCModeFlag = "on"
    /\ nGets = 2
    /\ prevRead # ""
    /\ lastRead = ""
    /\ nodeLabel = ""
    /\ ccMode = "on"

\* C16: current is always the argument of the most recent completed Set (empty
\* before any Set); lastRead changes only in the step in which Get returns,
\* where it takes the value of current, which is the value Get returns; Set
\* leaves lastRead as it is.
C16_WatcherState ==
    /\ [](current = lastSetArg)
    /\ [][/\ lastRead' # lastRead =>
                /\ pc \in {"getCheck", "getWoken"}
                /\ pc' = "gotValue"
                /\ lastRead' = current
                /\ value' = lastRead'
          /\ nSets' # nSets => lastRead' = lastRead]_vars

\* C16 witness: a Set has completed after a Get returned, with another value:
\* current has moved on and lastRead has not.
C16_Witness ==
    /\ nGets = 1
    /\ nSets = 2
    /\ retIdx = 1
    /\ current = lastSetArg
    /\ current # lastRead
    /\ current # ""

\* C17: at most one run of the script is in flight at any time; a Set that
\* completes while one is in flight changes the mailbox only (neither the
\* position of the loop nor the run), and a run is started only when none is
\* in flight.
C17_OneCycleAtATime ==
    /\ [](running \in {0, 1} /\ (running = 1 <=> pc \in {"initApply", "loopApply"}))
    /\ [][/\ running' > running => running = 0
          /\ (nSets' # nSets /\ running = 1) =>
                /\ pc' = pc
                /\ ccMode' = ccMode
                /\ running' = running
                /\ loopRuns' = loopRuns]_vars

\* C17 witness: two Sets have completed since the Get that started the run in
\* flight returned.
C17_Witness ==
    /\ pc = "loopApply"
    /\ running = 1
    /\ nSets = retIdx + 2

\* C18: after a run started from Get has failed, Get returns again (and so a
\* further run is started) only if a Set has completed since the previous Get
\* returned; until then the loop stays in Get.
C18_NoRetryWithoutSet ==
    [][/\ (result' = "failed" /\ loopRuns' > 0 /\ pc # "gotValue" /\ pc' = "gotValue")
            => (nSets > retIdx /\ pc \in {"getCheck", "getWoken"})
       /\ (/\ result = "failed" /\ loopRuns > 0
           /\ pc \in {"getLock", "getCheck", "getWait"}
           /\ nSets' = retIdx)
            => pc' \in {"getLock", "getCheck", "getWait"}]_vars

\* C18 witness: a run of the watch loop has failed and the loop waits in Get,
\* no Set having completed since the Get before the run returned.
C18_Witness ==
    /\ result = "failed"
    /\ loopRuns > 0
    /\ pc = "getWait"
    /\ nSets = retIdx
    /\ events = <<>>
    /\ ipc = "watch"

\* C19 (as claimed): every Set is made with a value that differs from the
\* value last observed, which for the add event is the empty value the
\* watcher holds.
C19_SetOnlyOnChange ==
    ipc = "setLock" => setArg # lastSetArg

\* C19 (amended): the add event calls Set with the label of the listed node
\* whatever its value; an update event calls Set, with the new label, if and
\* only if the new label differs from the label of the old object.
C19_SetOnAddAndOnChange ==
    [][/\ (ipc = "list" /\ ipc' # "list") =>
                (ipc' = "setLock" /\ setArg' = nodeLabel)
       /\ (ipc = "watch" /\ Len(events') < Len(events) /\ ipc' = "watch") =>
                (Head(events) = store /\ nSets' = nSets /\ pc' = pc)
       /\ (ipc = "watch" /\ ipc' = "setLock") =>
                (setArg' = Head(events) /\ setArg' # store)
       /\ (ipc # "setLock" /\ ipc' = "setLock") => ipc \in {"list", "watch"}]_vars

\* C19 witness: the add event has called Set with the empty label, and an
\* update event that left the label as it was has been passed over.
C19_Witness ==
    /\ ipc = "watch"
    /\ nSets = 1
    /\ lastSetArg = ""
    /\ skipped

\* C20: the mutex is held only inside Get and inside Set, never while the
\* script runs for the loop; a Set that wants the mutex during a run finds it
\* free, and whoever holds the mutex is at a step that releases it.
C20_NoLockAcrossCycle ==
    /\ mutex = "main" <=> pc \in {"getCheck", "getWoken"}
    /\ mutex = "informer" <=> ipc = "setBody"
    /\ pc \in {"initApply", "loopApply"} =>
          /\ mutex # "main"
          /\ ipc = "setLock" => mutex = "free"

\* C20 witness: Set holds the mutex while the script runs for the loop.
C20_Witness ==
    /\ pc = "loopApply"
    /\ ipc = "setBody"
    /\ mutex = "informer"

\* C24: every run of the script the reconciler starts, at startup or after a
\* Get, is started with a mode of on, off, devtools.
C24_ValidTarget ==
    pc \in {"initApply", "loopApply"} => ccMode \in {"on", "off", "devtools"}

\* C23: with a default configured and no run of the script failing, the
\* process ends up, once the label has stopped changing, with the most recent
\* run of the script made with the label's final value, or with the default
\* if that value is empty.
C23_Converges ==
    (defaultCCModeFlag # "" /\ [](result # "failed"))
        => <>[](ccMode = LoopMode(nodeLabel))

\* ----------------------------------------------------------- SpecLabels

\* C8: for every ComponentState value v, Resume(Pause(v)) = v.
C8_PauseResumeRoundTrip ==
    lpc = "resumed" => lresumed = lv

\* C21 (as claimed): Pause maps empty to empty, "false" to "false", "true" to
\* the bare marker, a value containing the marker to itself, and any other
\* value X to X with the marker appended; a value that is empty or "false" is
\* changed neither by Pause nor by Resume.
C21_PauseAppendsMarker ==
    /\ lpc = "paused" =>
          lpaused = (IF lv = <<>> THEN <<>>
                     ELSE IF lv = FalseStr THEN FalseStr
                     ELSE IF lv = TrueStr THEN PAUSED_STR
                     ELSE IF Contains(lv, PAUSED_STR) THEN lv
                     ELSE lv \o PAUSED_STR)
    /\ (lpc \in {"resumed", "restored"} /\ lv \in {<<>>, FalseStr}) =>
          (lpaused \in {<<>>, lv} /\ lresumed = lv)

\* C21 (amended): as claimed, except that any other value X is mapped to X,
\* an underscore and the marker.
C21_PauseTransform ==
    /\ lpc = "paused" =>
          lpaused = (IF lv = <<>> THEN <<>>
                     ELSE IF lv = FalseStr THEN FalseStr
                     ELSE IF lv = TrueStr THEN PAUSED_STR
                     ELSE IF Contains(lv, PAUSED_STR) THEN lv
                     ELSE lv \o <<"_">> \o PAUSED_STR)
    /\ (lpc \in {"resumed", "restored"} /\ lv \in {<<>>, FalseStr}) =>
          (lpaused \in {<<>>, lv} /\ lresumed = lv)

\* C21 witness: a pinned value has been paused.
C21_Witness ==
    /\ lpc = "paused"
    /\ lv = <<"v", "1">>
    /\ lpaused = <<"v", "1", "_">> \o PAUSED_STR

\* ------------------------------------------------------------ SpecCycle
\* The script has ended.
Done == spc \in {"exit0", "exit1"}

\* Positions of trace holding a call of the operation.
Ops(op) == {i \in 1..Len(trace) : trace[i].op = op}

GpuSet == {gpus[i] : i \in 1..Len(gpus)}

\* C4: if the wait for an enabled kind times out after the Pause label update,
\* no device is unbound or switched and no state label is written in that
\* run, and the run ends failed with the Resume label update issued.
C4_EvictionTimeoutAborts ==
    timedOut =>
        /\ Ops("unbind") = {}
        /\ Ops("set") = {}
        /\ Ops("state") = {}
        /\ Done => (spc = "exit1" /\ Ops("resume") # {})

\* C5: a run that has issued the Pause label update has, when it ends, issued
\* the Resume label update after it, on every path.
C5_ResumeAlwaysFollowsPause ==
    (Done /\ Ops("pause") # {}) =>
        \E i \in Ops("pause") : \E j \in Ops("resume") : i < j

\* C6: the state label is absent or one of on, off, devtools, failed, and a
\* run writes it only with its desired mode or with failed.
C6_StateLabelValues ==
    /\ stateLabel \in {"", "on", "off", "devtools", "failed"}
    /\ \A i \in Ops("state") : trace[i].val \in {CC_MODE, "failed"}

\* The no-op case of C7: discovery is done and found no gpu, or every gpu has
\* reported the desired mode to the initial check.
NoopCase ==
    /\ spc # "start"
    /\ Len(gpus) = 0 \/ matched = GpuSet

\* Nothing but queries was done, and labels and devices are as they were.
NoEffects ==
    /\ \A i \in 1..Len(trace) : trace[i].op = "query"
    /\ labels = labels0
    /\ stateLabel = ""
    /\ hwMode = hwMode0

\* C7 (as claimed): a run in the no-op case reports success and has no effect.
C7_NoopSucceeds ==
    (Done /\ NoopCase) => (spc = "exit0" /\ NoEffects)

\* C7 (amended): a run in the no-op case has no effect (no unbind, no
\* set-mode, no Pause or Resume label update, no state label write), never
\* enters the eviction, and reports success unless reading the component
\* labels before the check or touching the readiness file after it failed.
C7_NoopPaths ==
    NoopCase =>
        /\ NoEffects
        /\ spc \in {"fetch", "set_cc_mode", "ready", "exit0", "exit1"}
        /\ spc = "exit1" => failedAt \in {"fetch", "touch"}

\* C7 witness: two gpus, both already in the desired mode, and the run has
\* ended with success after the two queries.
C7_Witness ==
    /\ spc = "exit0"
    /\ Len(gpus) = 2
    /\ matched = GpuSet
    /\ Len(trace) = 2

\* C9: after a run that paused the five kinds, switched the gpus and resumed
\* the kinds, every component label has the value captured at the start.
C9_LabelsRestored ==
    (spc = "exit0" /\ Ops("pause") # {} /\ Ops("resume") # {}) =>
        \A kind \in KindSet : labels[kind] = DEPLOYED[kind]

\* Positions of trace holding a call made on a device.
DeviceOps == {i \in 1..Len(trace) : trace[i].gpu # 0}

\* C11: every device a run queries, unbinds or switches is eligible (vendor
\* and class) and capable (its device id is in device_ids), and so is every
\* member of gpus.
C11_OnlyCapableTouched ==
    /\ \A g \in GpuSet :
          IsGpu(sysfs[g]) /\ sysfs[g].device \in device_ids
    /\ \A i \in DeviceOps :
          /\ IsGpu(sysfs[trace[i].gpu])
          /\ sysfs[trace[i].gpu].device \in device_ids

\* C12: a run that ended on a failure of a device step (a query that failed,
\* an unbind that failed, a set-and-reset that failed, a mismatch after the
\* switch) ended failed, wrote the state label failed, issued the Resume label
\* update after that write, and touched no device after it.
C12_DeviceFailureHandling ==
    (Done /\ failedAt \in {"query", "unbind", "set", "verify"}) =>
        /\ spc = "exit1"
        /\ \E i \in Ops("state") :
              /\ trace[i].val = "failed"
              /\ \E j \in Ops("resume") : i < j
              /\ \A k \in DeviceOps : k < i

\* C13: when a run ends with success, the most recent query of every gpu
\* reported the desired mode; a gpu switched by the run has been queried after
\* the switch, and a run whose query after a switch did not report the desired
\* mode does not end with success.
C13_SuccessMeansAsserted ==
    /\ spc = "exit0" =>
          /\ asserted = GpuSet
          /\ \A i \in Ops("set") :
                \E j \in Ops("query") : j > i /\ trace[j].gpu = trace[i].gpu
    /\ failedAt = "verify" => spc \in {"label_failed", "exit_failed", "exit1"}

\* C13 witness: two gpus, both switched by the run, and the run has ended
\* with success.
C13_Witness ==
    /\ spc = "exit0"
    /\ Len(gpus) = 2
    /\ Cardinality({trace[i].gpu : i \in Ops("set")}) = 2
    /\ asserted = GpuSet

\* C15 (as claimed): a gpu is unbound right after a query of it that did not
\* report the desired mode, and right before it is switched.
C15_QueryThenUnbind ==
    \A i \in Ops("unbind") :
        /\ i > 1
        /\ trace[i - 1].op = "query"
        /\ trace[i - 1].gpu = trace[i].gpu
        /\ trace[i].gpu \notin matched
        /\ i < Len(trace) => trace[i + 1].op \in {"set", "resume"}

\* C15 (amended): in the loop over the gpus every gpu is unbound first and
\* queried next, whatever mode it is in; it is switched only right after that
\* query, and only if the query did not report the desired mode; the switch is
\* followed by one more query of the gpu.  Every query made after the Pause
\* label update comes right after the unbind or the switch of the same gpu.
C15_UnbindThenQuery ==
    /\ \A i \in Ops("unbind") :
          i < Len(trace) =>
              \/ trace[i + 1].op = "resume"
              \/ trace[i + 1].op = "query" /\ trace[i + 1].gpu = trace[i].gpu
    /\ \A i \in Ops("set") :
          /\ i > 2
          /\ trace[i - 1].op = "query" /\ trace[i - 1].gpu = trace[i].gpu
          /\ trace[i - 2].op = "unbind" /\ trace[i - 2].gpu = trace[i].gpu
          /\ i < Len(trace) =>
                \/ trace[i + 1].op = "state" /\ trace[i + 1].val = "failed"
                \/ trace[i + 1].op = "query" /\ trace[i + 1].gpu = trace[i].gpu
    /\ \A i \in Ops("query") :
          (\E j \in Ops("pause") : j < i) =>
              /\ trace[i - 1].op \in {"unbind", "set"}
              /\ trace[i - 1].gpu = trace[i].gpu
    /\ spc = "apply_set" => gpus[gi] \notin asserted

\* C15 witness: two gpus, the first already in the desired mode; the run has
\* unbound both, switched the second only, and ended with success.
C15_Witness ==
    /\ spc = "exit0"
    /\ Len(gpus) = 2
    /\ gpus[1] \in matched
    /\ Cardinality(Ops("unbind")) = 2
    /\ Cardinality(Ops("set")) = 1

\* The waits of _evict_gpu_operator_components are over.
WaitsOver ==
    /\ Ops("pause") # {}
    /\ failedAt # "pause"
    /\ spc # "wait"

\* C22 (as claimed): after the Pause label update a kind is waited for if and
\* only if its captured value is neither empty nor "false".
C22_WaitsForEnabledOnly ==
    /\ \A kind \in waited : DEPLOYED[kind] \notin {<<>>, FalseStr}
    /\ WaitsOver =>
          waited = {kind \in KindSet : DEPLOYED[kind] \notin {<<>>, FalseStr}}

\* C22 (amended): after the Pause label update a kind is waited for if and
\* only if its captured value is not empty; a kind captured as "false" is
\* waited for, a kind captured as empty never is, and no kind is waited for
\* before the Pause label update.
C22_WaitsForNonEmpty ==
    /\ \A kind \in waited : DEPLOYED[kind] # <<>>
    /\ waited # {} => Ops("pause") # {}
    /\ WaitsOver => waited = {kind \in KindSet : DEPLOYED[kind] # <<>>}

\* C22 witness: the waits are over; a kind captured as "false" has been waited
\* for and a kind captured as empty has not.
C22_Witness ==
    /\ spc = "unbind"
    /\ \E kind \in waited : DEPLOYED[kind] = FalseStr
    /\ \E kind \in KindSet \ waited : DEPLOYED[kind] = <<>>

====
